---- MODULE Spec2Model ----
(***************************************************************************)
(* Webpage Q&A (src/main.py): one Streamlit script run after another.      *)
(* A run reads the sidebar inputs, executes the "Process URLs" block when  *)
(* the button was clicked (lines 67-116) and then the query block (lines   *)
(* 119-143).  The only state that outlives a run is the index folder.      *)
(*                                                                         *)
(* Texts are sequences of tokens; " " is the whitespace token.  Every text *)
(* of the model is far shorter than chunk_size = 1000 characters.          *)
(***************************************************************************)
EXTENDS Integers, Sequences, FiniteSets, TLC

VARIABLES
    faiss_folder,        \* the persisted index at "faiss_index" (line 21), or NoIndex
    pc,                  \* position of the script run
    urls,                \* line 24-28
    process_url_clicked, \* line 30
    query,               \* line 121
    loaded,              \* what loader.load() did at line 86: NotRun, Raised or Returned
    data,                \* line 72 / 86 / 93
    used_fallback,       \* st.info("Using BeautifulSoup fallback...") shown, line 92
    i,                   \* fallback loop position (1-based) in urls, line 47
    fb_docs,             \* fallback_bs4_loader's local docs, line 46
    gets,                \* the requests.get calls issued at line 49, with their outcome
    docs,                \* line 106
    vectorstore,         \* line 112
    process_status,      \* outcome of the "Process URLs" block of this run
    q_vectorstore,       \* line 130
    retrieved,           \* the chunks the retriever handed to the chain, line 141
    result,              \* line 141
    query_status         \* outcome of the query block of this run

vars == <<faiss_folder, pc, urls, process_url_clicked, query, loaded, data,
          used_fallback, i, fb_docs, gets, docs, vectorstore, process_status,
          q_vectorstore, retrieved, result, query_status>>

----------------------------------------------------------------------------
(* Values *)

NumUrlInputs == 3
StatusOK == 200

URLS == {"A", "B"}
Blank == ""
WS == " "

\* An index (in memory or in the folder) is the list of its chunks with their
\* metadata; the vector of a chunk is a function of its text and is left out.
NoIndex == [exists |-> FALSE, chunks |-> << >>]
Index(chunks) == [exists |-> TRUE, chunks |-> chunks]

\* Outcome of loader.load(), line 86.
NotRun == [outcome |-> "not_run", docs |-> << >>]
Raised == [outcome |-> "raised", docs |-> << >>]
Returned(ds) == [outcome |-> "returned", docs |-> ds]

NoResult == [answer |-> << >>, sources |-> << >>]

\* Pages the web can serve: lists of <p> elements, each a text.
PageNoParagraphs == << >>
PageBlankParagraph == << <<WS>> >>
PageHelloWorld == << <<"Hello.">>, <<"World.">> >>
PageLeadingEmpty == << << >>, <<"Hello.">>, <<"World.">> >>
Pages == {PageNoParagraphs, PageBlankParagraph, PageHelloWorld, PageLeadingEmpty}

\* Outcomes of requests.get + BeautifulSoup for one URL.
GetRaised == [kind |-> "exception", status |-> 0, page |-> << >>]
Responses ==
    {GetRaised}
    \cup {[kind |-> "response", status |-> 404, page |-> PageHelloWorld]}
    \cup {[kind |-> "response", status |-> StatusOK, page |-> p] : p \in Pages}

\* Text the structured loader extracts for a page it could load.
LoaderText == <<"Hello.", WS, "World.">>

\* Completions the language model may produce (temperature 0.9).
Completions ==
    { <<"answer">>,
      <<"answer", "SOURCES:", "A">>,
      <<"answer", "SOURCES:", "B">>,
      <<"other", "SOURCES:", "A">> }

----------------------------------------------------------------------------
(* Pure helpers *)

Document(text, url) == [page_content |-> text, source |-> url]

RECURSIVE LStrip(_)
LStrip(t) == IF t # << >> /\ Head(t) = WS THEN LStrip(Tail(t)) ELSE t

RECURSIVE RStrip(_)
RStrip(t) ==
    IF t # << >> /\ t[Len(t)] = WS THEN RStrip(SubSeq(t, 1, Len(t) - 1)) ELSE t

\* str.strip()
Strip(t) == RStrip(LStrip(t))

\* " ".join(parts)
RECURSIVE Join(_)
Join(parts) ==
    IF parts = << >> THEN << >>
    ELSE IF Len(parts) = 1 THEN parts[1]
    ELSE parts[1] \o <<WS>> \o Join(Tail(parts))

\* The non-blank sidebar inputs, stripped, in input order.
RECURSIVE NonBlank(_)
NonBlank(inputs) ==
    IF inputs = << >> THEN << >>
    ELSE IF Head(inputs) = Blank THEN NonBlank(Tail(inputs))
    ELSE <<Head(inputs)>> \o NonBlank(Tail(inputs))

\* The subsequence of s at the positions in keep.
RECURSIVE Pick(_, _, _)
Pick(s, keep, k) ==
    IF k > Len(s) THEN << >>
    ELSE (IF k \in keep THEN <<s[k]>> ELSE << >>) \o Pick(s, keep, k + 1)


\* fallback_step without the status check of lines 50-52.
fallback_step_any_status(ds, url, resp) ==
    IF resp.kind = "exception" THEN ds
    ELSE LET text == Join(resp.page)
         IN  IF Strip(text) # << >> THEN Append(ds, Document(text, url)) ELSE ds

\* One pass of the loop body of fallback_bs4_loader (lines 48-62): the docs
\* list after url was tried with outcome resp.
fallback_step(ds, url, resp) ==
    IF resp.kind = "exception" THEN ds
    ELSE IF resp.status # StatusOK THEN ds
    ELSE LET text == Join(resp.page)
         IN  IF Strip(text) # << >> THEN Append(ds, Document(text, url)) ELSE ds

\* The loop leaving at the first exception instead of catching it per URL.
loop_next_abort(k, n, resp) == IF resp.kind = "exception" THEN n + 1 ELSE k + 1

\* "for url in urls" with the try/except inside the body (lines 47-62): the
\* next position after urls[k] was tried with outcome resp, n = len(urls).
loop_next(k, n, resp) == k + 1

\* The fallback taken whenever fewer documents than two were loaded.
needs_fallback_short(d) == Len(d) <= 1

\* "if not data or len(data) == 0", line 91.
needs_fallback(d) == d = << >> \/ Len(d) = 0

\* The zero-document guard comparing with the wrong sign.
no_content_never(d) == Len(d) < 0

\* "if len(data) == 0", line 97.
no_content(d) == Len(d) = 0

\* RecursiveCharacterTextSplitter.split_documents (lines 101-106) on texts
\* within chunk_size: one whitespace-stripped chunk per document, none for a
\* blank document; the metadata of the document is copied onto the chunk.
RECURSIVE split_documents(_)
split_documents(ds) ==
    IF ds = << >> THEN << >>
    ELSE LET d == Head(ds)
             t == Strip(d.page_content)
         IN  (IF t = << >> THEN << >> ELSE <<Document(t, d.source)>>)
             \o split_documents(Tail(ds))

\* FAISS.from_documents(docs, embeddings), line 112, when it succeeds.
from_documents(chunks) == Index(chunks)

\* A save that adds the new chunks to what the folder holds.
save_local_merge(store, folder) == Index(folder.chunks \o store.chunks)

\* vectorstore.save_local(faiss_folder), line 115: the folder after the save.
save_local(store, folder) == store

\* The existence guard left out.
index_exists_always(folder) == TRUE

\* os.path.exists(faiss_folder), line 123.
index_exists(folder) == folder.exists

\* FAISS.load_local(faiss_folder, ...), line 130.
load_local(folder) == folder

\* Position of the first "SOURCES:" marker in a completion, 0 when absent.
RECURSIVE MarkerAt(_, _)
MarkerAt(c, k) ==
    IF k > Len(c) THEN 0
    ELSE IF c[k] = "SOURCES:" THEN k
    ELSE MarkerAt(c, k + 1)

\* The chain's result (line 141): answer and sources are the two parts of the
\* completion around the "SOURCES:" marker; sources is empty without one.
chain_result(chunks, completion) ==
    LET m == MarkerAt(completion, 1)
    IN  IF m = 0 THEN [answer |-> completion, sources |-> << >>]
        ELSE [answer |-> SubSeq(completion, 1, m - 1),
              sources |-> SubSeq(completion, m + 1, Len(completion))]

----------------------------------------------------------------------------
(* Init and the steps of a script run *)

Init ==
    /\ faiss_folder = NoIndex
    /\ pc = "idle"
    /\ urls = << >>
    /\ process_url_clicked = FALSE
    /\ query = Blank
    /\ loaded = NotRun
    /\ data = << >>
    /\ used_fallback = FALSE
    /\ i = 1
    /\ fb_docs = << >>
    /\ gets = << >>
    /\ docs = << >>
    /\ vectorstore = NoIndex
    /\ process_status = "none"
    /\ q_vectorstore = NoIndex
    /\ retrieved = << >>
    /\ result = NoResult
    /\ query_status = "none"

\* A new script run (lines 16-30): Streamlit runs the script from the top on
\* a user interaction, with the widget values of that moment.
Rerun ==
    /\ pc = "idle"
    /\ \E inputs \in [1..NumUrlInputs -> URLS \cup {Blank}] :
           urls' = NonBlank([k \in 1..NumUrlInputs |-> inputs[k]])
    /\ process_url_clicked' \in BOOLEAN
    /\ query' \in {Blank, "What is X?"}
    /\ pc' = "process"
    /\ UNCHANGED <<faiss_folder, loaded, data, used_fallback, i, fb_docs, gets,
                   docs, vectorstore, process_status, q_vectorstore, retrieved,
                   result, query_status>>

\* The script run is over (it reached line 143 or was stopped by an uncaught
\* exception): its module globals are gone, only the index folder survives.
EndRun ==
    /\ pc \in {"end", "crashed"}
    /\ pc' = "idle"
    /\ urls' = << >>
    /\ process_url_clicked' = FALSE
    /\ query' = Blank
    /\ loaded' = NotRun
    /\ data' = << >>
    /\ used_fallback' = FALSE
    /\ i' = 1
    /\ fb_docs' = << >>
    /\ gets' = << >>
    /\ docs' = << >>
    /\ vectorstore' = NoIndex
    /\ process_status' = "none"
    /\ q_vectorstore' = NoIndex
    /\ retrieved' = << >>
    /\ result' = NoResult
    /\ query_status' = "none"
    /\ UNCHANGED faiss_folder

\* Line 67 false: the button was not clicked.
NotClicked ==
    /\ pc = "process"
    /\ ~process_url_clicked
    /\ pc' = "query"
    /\ UNCHANGED <<faiss_folder, urls, process_url_clicked, query, loaded, data,
                   used_fallback, i, fb_docs, gets, docs, vectorstore,
                   process_status, q_vectorstore, retrieved, result, query_status>>

\* Lines 68-69.
NoUrls ==
    /\ pc = "process"
    /\ process_url_clicked
    /\ urls = << >>
    /\ process_status' = "no_urls"
    /\ pc' = "query"
    /\ UNCHANGED <<faiss_folder, urls, process_url_clicked, query, loaded, data,
                   used_fallback, i, fb_docs, gets, docs, vectorstore,
                   q_vectorstore, retrieved, result, query_status>>

\* Lines 72-86: the structured loader returns documents for some of the URLs
\* (it skips the ones it cannot load), in URL order.
PrimaryReturns ==
    /\ pc = "process"
    /\ process_url_clicked
    /\ urls # << >>
    /\ \E keep \in SUBSET (1..Len(urls)) :
          LET got == Pick([k \in 1..Len(urls) |-> Document(LoaderText, urls[k])],
                          keep, 1)
          IN  /\ loaded' = Returned(got)
              /\ data' = got
    /\ pc' = "step2"
    /\ UNCHANGED <<faiss_folder, urls, process_url_clicked, query,
                   used_fallback, i, fb_docs, gets, docs, vectorstore,
                   process_status, q_vectorstore, retrieved, result, query_status>>

\* Lines 75-88: the import, the constructor or load() raised; data stays [].
PrimaryRaises ==
    /\ pc = "process"
    /\ process_url_clicked
    /\ urls # << >>
    /\ loaded' = Raised
    /\ data' = << >>
    /\ pc' = "step2"
    /\ UNCHANGED <<faiss_folder, urls, process_url_clicked, query,
                   used_fallback, i, fb_docs, gets, docs, vectorstore,
                   process_status, q_vectorstore, retrieved, result, query_status>>

\* Lines 91-93: the fallback is called.
FallbackStart ==
    /\ pc = "step2"
    /\ needs_fallback(data)
    /\ used_fallback' = TRUE
    /\ i' = 1
    /\ fb_docs' = << >>
    /\ pc' = "fb_loop"
    /\ UNCHANGED <<faiss_folder, urls, process_url_clicked, query, loaded, data,
                   gets, docs, vectorstore, process_status, q_vectorstore,
                   retrieved, result, query_status>>

\* Line 91 false.
FallbackSkipped ==
    /\ pc = "step2"
    /\ ~needs_fallback(data)
    /\ pc' = "loaded"
    /\ UNCHANGED <<faiss_folder, urls, process_url_clicked, query, loaded, data,
                   used_fallback, i, fb_docs, gets, docs, vectorstore,
                   process_status, q_vectorstore, retrieved, result, query_status>>

\* Lines 47-62: one iteration, for urls[i].
FallbackGet ==
    /\ pc = "fb_loop"
    /\ i <= Len(urls)
    /\ \E resp \in Responses :
          /\ gets' = Append(gets, [url |-> urls[i], resp |-> resp])
          /\ fb_docs' = fallback_step(fb_docs, urls[i], resp)
          /\ i' = loop_next(i, Len(urls), resp)
    /\ UNCHANGED <<faiss_folder, pc, urls, process_url_clicked, query, loaded,
                   data, used_fallback, docs, vectorstore, process_status,
                   q_vectorstore, retrieved, result, query_status>>

\* Line 63 and the assignment of line 93.
FallbackReturn ==
    /\ pc = "fb_loop"
    /\ i > Len(urls)
    /\ data' = fb_docs
    /\ pc' = "loaded"
    /\ UNCHANGED <<faiss_folder, urls, process_url_clicked, query, loaded,
                   used_fallback, i, fb_docs, gets, docs, vectorstore,
                   process_status, q_vectorstore, retrieved, result, query_status>>

\* Lines 95-98: nothing was loaded.
NoContent ==
    /\ pc = "loaded"
    /\ no_content(data)
    /\ process_status' = "fetch_fatal"
    /\ pc' = "query"
    /\ UNCHANGED <<faiss_folder, urls, process_url_clicked, query, loaded, data,
                   used_fallback, i, fb_docs, gets, docs, vectorstore,
                   q_vectorstore, retrieved, result, query_status>>

\* Lines 99-106.
Split ==
    /\ pc = "loaded"
    /\ ~no_content(data)
    /\ docs' = split_documents(data)
    /\ pc' = "embed"
    /\ UNCHANGED <<faiss_folder, urls, process_url_clicked, query, loaded, data,
                   used_fallback, i, fb_docs, gets, vectorstore, process_status,
                   q_vectorstore, retrieved, result, query_status>>

\* Lines 101-106 raise: nothing catches it, the script run stops.
SplitRaises ==
    /\ pc = "loaded"
    /\ ~no_content(data)
    /\ process_status' = "chunk_failed"
    /\ pc' = "crashed"
    /\ UNCHANGED <<faiss_folder, urls, process_url_clicked, query, loaded, data,
                   used_fallback, i, fb_docs, gets, docs, vectorstore,
                   q_vectorstore, retrieved, result, query_status>>

\* Lines 110-112.
Build ==
    /\ pc = "embed"
    /\ vectorstore' = from_documents(docs)
    /\ pc' = "save"
    /\ UNCHANGED <<faiss_folder, urls, process_url_clicked, query, loaded, data,
                   used_fallback, i, fb_docs, gets, docs, process_status,
                   q_vectorstore, retrieved, result, query_status>>

\* A failed build that still writes the chunks embedded so far.
BuildRaisesPartialSave ==
    /\ pc = "embed"
    /\ faiss_folder' = Index(SubSeq(docs, 1, Len(docs) - 1))
    /\ process_status' = "index_failed"
    /\ pc' = "crashed"
    /\ UNCHANGED <<urls, process_url_clicked, query, loaded, data,
                   used_fallback, i, fb_docs, gets, docs, vectorstore,
                   q_vectorstore, retrieved, result, query_status>>

\* Lines 111-112 raise (embedding service, index construction): nothing
\* catches it, the script run stops.
BuildRaises ==
    /\ pc = "embed"
    /\ process_status' = "index_failed"
    /\ pc' = "crashed"
    /\ UNCHANGED <<faiss_folder, urls, process_url_clicked, query, loaded, data,
                   used_fallback, i, fb_docs, gets, docs, vectorstore,
                   q_vectorstore, retrieved, result, query_status>>

\* Lines 115-116.
Save ==
    /\ pc = "save"
    /\ faiss_folder' = save_local(vectorstore, faiss_folder)
    /\ process_status' = "saved"
    /\ pc' = "query"
    /\ UNCHANGED <<urls, process_url_clicked, query, loaded, data,
                   used_fallback, i, fb_docs, gets, docs, vectorstore,
                   q_vectorstore, retrieved, result, query_status>>

\* Line 122 false: no question.
NoQuery ==
    /\ pc = "query"
    /\ query = Blank
    /\ pc' = "end"
    /\ UNCHANGED <<faiss_folder, urls, process_url_clicked, query, loaded, data,
                   used_fallback, i, fb_docs, gets, docs, vectorstore,
                   process_status, q_vectorstore, retrieved, result, query_status>>

\* Lines 123-124.
IndexNotFound ==
    /\ pc = "query"
    /\ query # Blank
    /\ ~index_exists(faiss_folder)
    /\ query_status' = "not_found"
    /\ pc' = "end"
    /\ UNCHANGED <<faiss_folder, urls, process_url_clicked, query, loaded, data,
                   used_fallback, i, fb_docs, gets, docs, vectorstore,
                   process_status, q_vectorstore, retrieved, result>>

\* Lines 125-139.
LoadIndex ==
    /\ pc = "query"
    /\ query # Blank
    /\ index_exists(faiss_folder)
    /\ q_vectorstore' = load_local(faiss_folder)
    /\ pc' = "chain"
    /\ UNCHANGED <<faiss_folder, urls, process_url_clicked, query, loaded, data,
                   used_fallback, i, fb_docs, gets, docs, vectorstore,
                   process_status, retrieved, result, query_status>>

\* Lines 141-143: the retriever returns some of the index's chunks (its
\* similarity ranking is opaque), the language model some completion.
Answer ==
    /\ pc = "chain"
    /\ \E keep \in (SUBSET (1..Len(q_vectorstore.chunks))) \ {{}} :
       \E completion \in Completions :
          LET top == Pick(q_vectorstore.chunks, keep, 1)
          IN  /\ retrieved' = top
              /\ result' = chain_result(top, completion)
    /\ query_status' = "answered"
    /\ pc' = "end"
    /\ UNCHANGED <<faiss_folder, urls, process_url_clicked, query, loaded, data,
                   used_fallback, i, fb_docs, gets, docs, vectorstore,
                   process_status, q_vectorstore>>

\* A failed answer that discards the index folder.
AnswerRaisesDropIndex ==
    /\ pc = "chain"
    /\ faiss_folder' = NoIndex
    /\ query_status' = "answer_failed"
    /\ pc' = "crashed"
    /\ UNCHANGED <<urls, process_url_clicked, query, loaded, data,
                   used_fallback, i, fb_docs, gets, docs, vectorstore,
                   process_status, q_vectorstore, retrieved, result>>

\* Line 141 raises (embedding of the question, language-model call): nothing
\* catches it, the script run stops.
AnswerRaises ==
    /\ pc = "chain"
    /\ query_status' = "answer_failed"
    /\ pc' = "crashed"
    /\ UNCHANGED <<faiss_folder, urls, process_url_clicked, query, loaded, data,
                   used_fallback, i, fb_docs, gets, docs, vectorstore,
                   process_status, q_vectorstore, retrieved, result>>

Next ==
    \/ Rerun
    \/ EndRun
    \/ NotClicked
    \/ NoUrls
    \/ PrimaryReturns
    \/ PrimaryRaises
    \/ FallbackStart
    \/ FallbackSkipped
    \/ FallbackGet
    \/ FallbackReturn
    \/ NoContent
    \/ Split
    \/ SplitRaises
    \/ Build
    \/ BuildRaises
    \/ Save
    \/ NoQuery
    \/ IndexNotFound
    \/ LoadIndex
    \/ Answer
    \/ AnswerRaises

Spec == Init /\ [][Next]_vars

----------------------------------------------------------------------------
(* Properties *)

GetUrls == [k \in 1..Len(gets) |-> gets[k].url]
PrimaryEmpty == loaded.outcome \in {"raised", "returned"} /\ loaded.docs = << >>
AfterStep2 == pc \in {"fb_loop", "loaded", "embed", "save", "query", "chain",
                      "end", "crashed"}

\* C1: when the primary loader returned at least one document, the fallback
\* is never called in that action, no fallback GET is issued, and the
\* documents that go to the splitter are exactly the loader's.
C1_PrimaryDocsNoFallback ==
    (loaded.outcome = "returned" /\ Len(loaded.docs) >= 1) =>
        /\ ~used_fallback
        /\ gets = << >>
        /\ pc # "fb_loop"
        /\ data = loaded.docs
        /\ pc \in {"embed", "save"} => docs = split_documents(loaded.docs)

C1_Witness ==
    /\ pc = "embed"
    /\ loaded.outcome = "returned"
    /\ Len(loaded.docs) = 1
    /\ Len(urls) = 3
    /\ docs # << >>

\* C2: when the primary loader yielded nothing (empty list or exception), the
\* fallback tries every URL exactly once in input order, whatever the
\* outcome of the earlier URLs was.
C2_FallbackTriesEveryUrl ==
    /\ (PrimaryEmpty /\ AfterStep2) => used_fallback
    /\ used_fallback =>
          IF pc = "fb_loop"
          THEN /\ i - 1 <= Len(urls)
               /\ GetUrls = SubSeq(urls, 1, i - 1)
          ELSE GetUrls = urls

C2_Witness ==
    /\ pc = "loaded"
    /\ loaded = Raised
    /\ Len(urls) = 3
    /\ Len(gets) = 3
    /\ gets[1].resp.kind = "exception"
    /\ gets[2].resp.status = 404
    /\ gets[3].resp.page = PageNoParagraphs /\ gets[3].resp.status = StatusOK

\* C3: when both strategies yielded no document the action stops with the
\* fetch error: the splitter, the embedding and the save are not reached and
\* the index folder stays what it was.
C3_NoDocumentsHalts ==
    /\ [][(pc = "loaded" /\ Len(data) = 0) =>
             /\ pc' = "query"
             /\ process_status' = "fetch_fatal"
             /\ UNCHANGED <<faiss_folder, docs, vectorstore>>]_vars
    /\ [][(pc # "save") => (faiss_folder' = faiss_folder)]_vars
    /\ [](process_status = "fetch_fatal" =>
             /\ docs = << >>
             /\ vectorstore = NoIndex
             /\ pc \in {"query", "chain", "end", "crashed"})

C3_Witness ==
    /\ process_status = "fetch_fatal"
    /\ Len(urls) = 3
    /\ Len(gets) = 3
    /\ faiss_folder.exists

\* C4: a question asked while the index folder is absent ends with the
\* index-not-found error; nothing is loaded, retrieved, answered or written.
C4_QueryWithoutIndex ==
    [][(pc = "query" /\ query # Blank /\ ~faiss_folder.exists) =>
          /\ pc' = "end"
          /\ query_status' = "not_found"
          /\ UNCHANGED <<faiss_folder, q_vectorstore, retrieved, result,
                         urls, data, docs, vectorstore, process_status>>]_vars

C4_Witness ==
    /\ query_status = "not_found"
    /\ pc = "end"
    /\ ~faiss_folder.exists
    /\ q_vectorstore = NoIndex
    /\ result = NoResult

\* C5: a failure of the embedding or of the index construction stops the
\* action and leaves the folder alone; the folder only ever changes by the
\* save of an index that was built completely from the action's documents.
C5_NoPartialIndexPersisted ==
    [][/\ (pc = "embed" /\ pc' = "crashed") =>
             (faiss_folder' = faiss_folder /\ process_status' = "index_failed")
       /\ (faiss_folder' # faiss_folder) =>
             /\ pc = "save"
             /\ vectorstore = Index(split_documents(data))
             /\ faiss_folder' = vectorstore
             /\ process_status' = "saved"]_vars

C5_Witness ==
    /\ pc = "crashed"
    /\ process_status = "index_failed"
    /\ faiss_folder.exists
    /\ faiss_folder.chunks # docs

\* C6: every save replaces the index: the folder then holds exactly the
\* chunks of the documents of this build, nothing of what it held before.
C6_RebuiltWholesale ==
    [][pc = "save" => faiss_folder' = Index(split_documents(data))]_vars

C6_Witness ==
    /\ pc = "save"
    /\ faiss_folder.exists
    /\ \E k \in 1..Len(faiss_folder.chunks) :
          \A m \in 1..Len(vectorstore.chunks) :
              faiss_folder.chunks[k] # vectorstore.chunks[m]

\* C7: the query block never changes the index folder, also when the answer
\* step fails.
C7_QueryKeepsIndex ==
    [][(pc \in {"query", "chain"}) => (faiss_folder' = faiss_folder)]_vars

C7_Witness ==
    /\ pc = "crashed"
    /\ query_status = "answer_failed"
    /\ faiss_folder.exists
    /\ q_vectorstore = faiss_folder

\* C8 (as claimed): a run whose "Process URLs" block failed in the chunk or
\* index stage and that carries a question still handles the question.
C8_QueryHandledAfterStageFailure ==
    (/\ pc = "crashed"
     /\ process_status \in {"chunk_failed", "index_failed"}
     /\ query # Blank)
        => query_status \in {"answered", "not_found", "answer_failed"}

SourcesOf(chunks) == {chunks[k].source : k \in 1..Len(chunks)}
Reported(r) == {r.sources[k] : k \in 1..Len(r.sources)}

\* C9 (as claimed): the sources reported with an answer are exactly the
\* distinct source URLs of the retrieved chunks, whatever the model wrote.
C9_SourcesFromRetrievedChunks ==
    query_status = "answered" => Reported(result) = SourcesOf(retrieved)

GetOk(g) ==
    /\ g.resp.kind = "response"
    /\ g.resp.status = StatusOK
    /\ Strip(Join(g.resp.page)) # << >>

GetNonEmpty(g) ==
    /\ g.resp.kind = "response"
    /\ g.resp.status = StatusOK
    /\ Join(g.resp.page) # << >>

DocOfGet(g) == [page_content |-> Join(g.resp.page), source |-> g.url]
DocsOfGets(gs) == [k \in 1..Len(gs) |-> DocOfGet(gs[k])]

\* C10 (as claimed): the fallback returns one Document for each URL whose
\* GET succeeded and whose paragraph text is non-empty, and no other.
C10_DocPerNonEmptyPage ==
    (pc = "fb_loop" /\ i > Len(urls)) =>
        fb_docs = DocsOfGets(SelectSeq(gets, GetNonEmpty))

\* C10 (amended): the fallback returns, in input order, one Document for each
\* URL whose GET completed with status 200 and whose joined paragraph text is
\* not blank, and no other; its source is the URL and its content the
\* paragraph texts joined by one space.
C10_DocPerReadablePage ==
    /\ used_fallback => fb_docs = DocsOfGets(SelectSeq(gets, GetOk))
    /\ (used_fallback /\ pc # "fb_loop") => data = fb_docs
    /\ \A k \in 1..Len(gets) :
          (gets[k].resp.kind = "response" /\ gets[k].resp.page = PageHelloWorld
              /\ gets[k].resp.status = StatusOK)
          => \E m \in 1..Len(fb_docs) :
                fb_docs[m] = [page_content |-> <<"Hello.", " ", "World.">>,
                              source |-> gets[k].url]

C10_Witness ==
    /\ pc = "fb_loop"
    /\ i > Len(urls)
    /\ loaded = Raised
    /\ urls = <<"A", "B", "A">>
    /\ gets[1].resp = [kind |-> "response", status |-> StatusOK,
                       page |-> PageHelloWorld]
    /\ gets[2].resp = [kind |-> "response", status |-> StatusOK,
                       page |-> PageBlankParagraph]
    /\ gets[3].resp = [kind |-> "response", status |-> StatusOK,
                       page |-> PageLeadingEmpty]
    /\ Len(fb_docs) = 2

====
